---- MODULE Spec2Model ----
(***************************************************************************)
(* A model of the two reaper backends of mike-haobo/reaper:                *)
(*   src/reaper/dicom_file_reaper.py          (DicomFileReaper)            *)
(*   src/scitran/reaper/dicom_net_reaper.py   (DicomNetReaper, DicomFile)  *)
(*                                                                         *)
(* Python strings are modelled as sequences of one-character strings, so   *)
(* that strip, lower, split, replace, re.match, strptime and %-formatting  *)
(* are computed character by character.  A missing value (Python None, or  *)
(* an absent header element) is the one-element sequence None.             *)
(***************************************************************************)
EXTENDS Integers, Sequences, FiniteSets, TLC

\* ------------------------------------------------------------------------
\* Bounds of the model
\* ------------------------------------------------------------------------
\* the largest number of images a series holds on the device
MaxImages == 2
\* the largest number of entries of an item directory
MaxDirFiles == 3
\* the largest number of reap attempts the engine makes for one item
MaxAttempts == 2

\* ------------------------------------------------------------------------
\* Python values
\* ------------------------------------------------------------------------
None == <<"None">>

Truthy(s) == s # None /\ s # <<>>

\* string literals used by the code, by the defaults and by the inputs
S_star     == <<"*">>
S_e_star   == <<"e", "*">>
S_discard_ex == <<"d", "i", "s", "c", "a", "r", "d", " ", "e", "x">>
S_Discard_slash == <<"/", "D", "i", "s", "c", "a", "r", "d", "/">>
S_ex       == <<"e", "x">>
S_ea       == <<"e", "a">>
S_SIEMENS  == <<"S", "I", "E", "M", "E", "N", "S">>
S_Siemens  == <<"S", "i", "e", "m", "e", "n", "s">>
S_GE       == <<"G", "E">>
S_none     == <<"(", "n", "o", "n", "e", ")">>
S_NA       == <<"N", "A">>
S_MR       == <<"M", "R">>
S_1        == <<"1">>
S_2        == <<"2">>
S_19900101 == <<"1", "9", "9", "0", "0", "1", "0", "1">>
S_19900115 == <<"1", "9", "9", "0", "0", "1", "1", "5">>
S_19400101 == <<"1", "9", "4", "0", "0", "1", "0", "1">>
S_19400102 == <<"1", "9", "4", "0", "0", "1", "0", "2">>
S_18991231 == <<"1", "8", "9", "9", "1", "2", "3", "1">>
S_19900230 == <<"1", "9", "9", "0", "0", "2", "3", "0">>
S_1990010X == <<"1", "9", "9", "0", "0", "1", "0", "X">>
S_20200101 == <<"2", "0", "2", "0", "0", "1", "0", "1">>
S_20200114 == <<"2", "0", "2", "0", "0", "1", "1", "4">>
S_20191231 == <<"2", "0", "1", "9", "1", "2", "3", "1">>
S_120000   == <<"1", "2", "0", "0", "0", "0">>
S_120000_5 == <<"1", "2", "0", "0", "0", "0", ".", "5">>
S_Doe_Jane == <<"D", "o", "e", "^", "J", "a", "n", "e">>

\* str.upper / str.lower, one character at a time
UpperChar(c) ==
    CASE c = "a" -> "A" [] c = "c" -> "C" [] c = "d" -> "D" [] c = "e" -> "E"
      [] c = "i" -> "I" [] c = "m" -> "M" [] c = "n" -> "N" [] c = "o" -> "O"
      [] c = "r" -> "R" [] c = "s" -> "S" [] c = "x" -> "X" [] c = "g" -> "G"
      [] OTHER -> c

LowerChar(c) ==
    CASE c = "A" -> "a" [] c = "C" -> "c" [] c = "D" -> "d" [] c = "E" -> "e"
      [] c = "I" -> "i" [] c = "M" -> "m" [] c = "N" -> "n" [] c = "O" -> "o"
      [] c = "R" -> "r" [] c = "S" -> "s" [] c = "X" -> "x" [] c = "G" -> "g"
      [] OTHER -> c

upper(s) == [i \in 1..Len(s) |-> UpperChar(s[i])]

lower(s) == [i \in 1..Len(s) |-> LowerChar(s[i])]

\* str.strip(chars): drop leading and trailing characters that are in chars
RECURSIVE lstrip(_, _)
lstrip(s, chars) ==
    IF s # <<>> /\ Head(s) \in chars THEN lstrip(Tail(s), chars) ELSE s

RECURSIVE rstrip(_, _)
rstrip(s, chars) ==
    IF s # <<>> /\ s[Len(s)] \in chars
    THEN rstrip(SubSeq(s, 1, Len(s) - 1), chars)
    ELSE s

strip(s, chars) == rstrip(lstrip(s, chars), chars)

\* str.split(): the whitespace-separated words of s, as a set
RECURSIVE split(_, _)
split(s, word) ==
    IF s = <<>> THEN (IF word = <<>> THEN {} ELSE {word})
    ELSE IF Head(s) = " "
         THEN (IF word = <<>> THEN {} ELSE {word}) \cup split(Tail(s), <<>>)
         ELSE split(Tail(s), Append(word, Head(s)))

\* str.replace('*', '.*')
RECURSIVE replace_star(_)
replace_star(s) ==
    IF s = <<>> THEN <<>>
    ELSE IF Head(s) = "*" THEN <<".", "*">> \o replace_star(Tail(s))
         ELSE <<Head(s)>> \o replace_star(Tail(s))

\* re.match(pattern, s) for patterns of literal characters, '.' and 'x*':
\* the pattern has to match a prefix of s
ReChar(p, c) == p = "." \/ p = c

RECURSIVE re_match(_, _)
re_match(pattern, s) ==
    IF pattern = <<>> THEN TRUE
    ELSE IF Len(pattern) >= 2 /\ pattern[2] = "*"
         THEN \/ re_match(Tail(Tail(pattern)), s)
              \/ s # <<>> /\ ReChar(pattern[1], Head(s)) /\ re_match(pattern, Tail(s))
         ELSE s # <<>> /\ ReChar(pattern[1], Head(s)) /\ re_match(Tail(pattern), Tail(s))

\* ------------------------------------------------------------------------
\* Dates: datetime.strptime and %-formatting
\* ------------------------------------------------------------------------
DigitChars == {"0", "1", "2", "3", "4", "5", "6", "7", "8", "9"}

DigitVal(c) ==
    CASE c = "0" -> 0 [] c = "1" -> 1 [] c = "2" -> 2 [] c = "3" -> 3
      [] c = "4" -> 4 [] c = "5" -> 5 [] c = "6" -> 6 [] c = "7" -> 7
      [] c = "8" -> 8 [] c = "9" -> 9

DigitChar(n) ==
    CASE n = 0 -> "0" [] n = 1 -> "1" [] n = 2 -> "2" [] n = 3 -> "3"
      [] n = 4 -> "4" [] n = 5 -> "5" [] n = 6 -> "6" [] n = 7 -> "7"
      [] n = 8 -> "8" [] n = 9 -> "9"

AllDigits(s) == \A i \in 1..Len(s) : s[i] \in DigitChars

RECURSIVE NatOf(_)
NatOf(s) ==
    IF s = <<>> THEN 0
    ELSE 10 * NatOf(SubSeq(s, 1, Len(s) - 1)) + DigitVal(s[Len(s)])

RECURSIVE StrOfNat(_)
StrOfNat(n) ==
    IF n < 10 THEN <<DigitChar(n)>>
    ELSE Append(StrOfNat(n \div 10), DigitChar(n % 10))

RECURSIVE ZeroPad(_, _)
ZeroPad(s, width) == IF Len(s) >= width THEN s ELSE ZeroPad(<<"0">> \o s, width)

\* '%03d' % n
Fmt03d(n) ==
    IF n >= 0 THEN ZeroPad(StrOfNat(n), 3)
    ELSE <<"-">> \o ZeroPad(StrOfNat(0 - n), 2)

IsLeap(y) == (y % 4 = 0 /\ y % 100 # 0) \/ y % 400 = 0

DaysInMonth(y, m) ==
    IF m = 2 THEN (IF IsLeap(y) THEN 29 ELSE 28)
    ELSE IF m \in {4, 6, 9, 11} THEN 30 ELSE 31

\* a date is <<year, month, day>>, a timestamp <<year, month, day, clock>>
Year(d) == d[1]

Month(d) == d[2]

Day(d) == d[3]

\* datetime.strptime(s, '%Y%m%d') on an 8-character string: the date, or
\* None for the ValueError
strptime_date(s) ==
    IF Len(s) # 8 \/ ~AllDigits(s) THEN None
    ELSE LET y == NatOf(SubSeq(s, 1, 4))
             m == NatOf(SubSeq(s, 5, 6))
             d == NatOf(SubSeq(s, 7, 8))
         IN  IF y >= 1 /\ m \in 1..12 /\ d >= 1 /\ d <= DaysInMonth(y, m)
             THEN <<y, m, d>>
             ELSE None

\* the clock part of strptime(date + time[:6], '%Y%m%d%H%M%S')
strptime_clock(t) ==
    IF Len(t) # 6 \/ ~AllDigits(t) THEN None
    ELSE LET h  == NatOf(SubSeq(t, 1, 2))
             mi == NatOf(SubSeq(t, 3, 4))
             sc == NatOf(SubSeq(t, 5, 6))
         IN  IF h <= 23 /\ mi <= 59 /\ sc <= 61 THEN t ELSE None

\* util.localize_timestamp: attaches the configured timezone to the naive
\* timestamp and keeps its calendar fields
localize_timestamp(ts) == ts

ValueError == <<"ValueError">>

\* DicomFile.timestamp: None when either field is missing, ValueError when
\* strptime rejects the text
timestamp(date, time) ==
    IF Truthy(date) /\ Truthy(time)
    THEN LET d == strptime_date(date)
             c == strptime_clock(SubSeq(time, 1, IF Len(time) < 6 THEN Len(time) ELSE 6))
         IN  IF d = None \/ c = None THEN ValueError
             ELSE localize_timestamp(<<Year(d), Month(d), Day(d), c>>)
    ELSE None

\* the oldest plausible birth date: datetime.datetime(1900, 1, 1)
MinBirthYear == 1900

\* DicomFile.parse_patient_dob
parse_patient_dob(dob) ==
    LET d == strptime_date(dob)
    IN  IF d = None THEN None
        ELSE IF Year(d) < MinBirthYear THEN None
        ELSE d

\* ages of this many months and more are written in years
AgeMonthsLimit == 960

AgeMonths(study, dob) ==
    12 * (Year(study) - Year(dob)) + (Month(study) - Month(dob))
        - (IF Day(study) < Day(dob) THEN 1 ELSE 0)

\* a mutant of PatientAgeOf: every age is written in years
PatientAgeOf_InYears(months) == Append(Fmt03d(months \div 12), "Y")

\* line 167: '%03dM' % months if months < 960 else '%03dY' % (months/12)
PatientAgeOf(months) ==
    IF months < AgeMonthsLimit
    THEN Append(Fmt03d(months), "M")
    ELSE Append(Fmt03d(months \div 12), "Y")

\* ------------------------------------------------------------------------
\* More string operations
\* ------------------------------------------------------------------------
S_dicom == <<"d", "i", "c", "o", "m">>
S_dcm   == <<".", "d", "c", "m">>
S_tgz   == <<".", "t", "g", "z">>

startswith(s, prefix) ==
    Len(s) >= Len(prefix) /\ SubSeq(s, 1, Len(prefix)) = prefix

\* str.replace(old, new): every occurrence, left to right
RECURSIVE replace(_, _, _)
replace(s, old, new) ==
    IF s = <<>> THEN <<>>
    ELSE IF startswith(s, old)
         THEN new \o replace(SubSeq(s, Len(old) + 1, Len(s)), old, new)
         ELSE <<Head(s)>> \o replace(Tail(s), old, new)

\* ------------------------------------------------------------------------
\* VARIABLES
\* ------------------------------------------------------------------------
VARIABLES
    \* DicomNetReaper: the fields __init__ sets
    anonymize, whitelist, blacklist,
    \* DicomNetReaper.reap: the item offered (item['state']), the series as
    \* the device holds it, the workspace, the log, what the move operation
    \* returned (None while it has not been invoked) and the value reap
    \* returned
    item, device, tempdir, log, moved, ret,
    \* DicomNetReaper.instrument_query: the series the device matches, the
    \* last find's fate and the value instrument_query returned
    pacs, find_ok, i_state,
    \* DicomFileReaper.instrument_query: the tree under self.path and the
    \* snapshot returned
    tree, fs_state,
    \* DicomFileReaper.reap: the item directory, as it was before the first
    \* attempt and as it is, the attempts made, the workspace of the last
    \* attempt and the value it returned
    src_dir0, src_dir, attempts, fs_tempdir, fs_ret,
    \* DicomFile.__init__(parse=True, anonymize=True) on one file: the header
    \* read, the header the file holds, and the object constructed
    dcm_read, dcm_file, dcm_obj

net_vars == <<anonymize, whitelist, blacklist, item, device, tempdir, log, moved, ret>>

query_vars == <<pacs, find_ok, i_state>>

walk_vars == <<tree, fs_state>>

file_vars == <<src_dir0, src_dir, attempts, fs_tempdir, fs_ret>>

dcm_vars == <<dcm_read, dcm_file, dcm_obj>>

vars == <<net_vars, query_vars, walk_vars, file_vars, dcm_vars>>

\* ------------------------------------------------------------------------
\* DicomNetReaper.DicomFile
\* ------------------------------------------------------------------------
\* a header (the dataset dicom.read_file returns): every element is a
\* string, or None when the element is absent
Header(manufacturer, acq, study_date, study_time, acq_date, acq_time, dob, name, pid) ==
    [Manufacturer |-> manufacturer, AcquisitionNumber |-> acq,
     StudyDate |-> study_date, StudyTime |-> study_time,
     AcquisitionDate |-> acq_date, AcquisitionTime |-> acq_time,
     PatientBirthDate |-> dob, PatientName |-> name, PatientID |-> pid,
     PatientAge |-> None]

\* dcm.get(element, default)
Get(value, default) == IF value = None THEN default ELSE value

\* the object under construction when __init__ raises
Raised(exception, dcm) ==
    [fault |-> exception, patient_id |-> None, acq_no |-> None,
     session_timestamp |-> None, acquisition_timestamp |-> None,
     months |-> None, saved |-> dcm]

\* a mutant of AcqNo: the vendor exception is forgotten
AcqNo_NoVendorException(dcm) ==
    IF Truthy(Get(dcm.AcquisitionNumber, <<>>)) THEN dcm.AcquisitionNumber ELSE None

\* line 141: str(AcquisitionNumber) or None, unless the equipment is SIEMENS
AcqNo(dcm) ==
    IF upper(dcm.Manufacturer) # S_SIEMENS
    THEN (IF Truthy(Get(dcm.AcquisitionNumber, <<>>)) THEN dcm.AcquisitionNumber ELSE None)
    ELSE None

\* lines 161-171: the de-identification of a parsed file; study_datetime
\* is the session timestamp of line 148
Deidentify(dcm, obj, study_datetime) ==
    LET has_dob == Truthy(dcm.PatientBirthDate)
        dob    == IF has_dob THEN parse_patient_dob(dcm.PatientBirthDate) ELSE None
        months == IF dob # None /\ study_datetime # None
                  THEN <<"months", AgeMonths(study_datetime, dob)>> ELSE None
        aged   == IF months # None
                  THEN [dcm EXCEPT !.PatientAge = PatientAgeOf(months[2])] ELSE dcm
        no_dob == IF has_dob THEN [aged EXCEPT !.PatientBirthDate = None] ELSE aged
        no_name == IF Truthy(dcm.PatientName)
                   THEN [no_dob EXCEPT !.PatientName = None] ELSE no_dob
    IN  IF dob # None /\ study_datetime = None
        THEN Raised("AttributeError", dcm)
        ELSE [obj EXCEPT !.months = months, !.saved = no_name]

\* DicomFile.__init__(filepath, parse, anonymize): the object, the
\* exception raised if any (fault) and the header the file holds afterwards
DicomFile(dcm, parse, anon) ==
    IF ~parse /\ anon THEN Raised("Exception", dcm)
    ELSE IF dcm.Manufacturer = None THEN Raised("AttributeError", dcm)
    ELSE LET obj == [fault |-> "", patient_id |-> Get(dcm.PatientID, <<>>),
                     acq_no |-> AcqNo(dcm),
                     session_timestamp |-> None, acquisition_timestamp |-> None,
                     months |-> None, saved |-> dcm]
         IN  IF ~parse THEN obj
             ELSE LET study_datetime == timestamp(dcm.StudyDate, dcm.StudyTime)
                      acq_datetime   == timestamp(dcm.AcquisitionDate, dcm.AcquisitionTime)
                      parsed == [obj EXCEPT
                                   !.session_timestamp = study_datetime,
                                   !.acquisition_timestamp =
                                       IF acq_datetime # None THEN acq_datetime
                                       ELSE study_datetime]
                  IN  IF study_datetime = ValueError \/ acq_datetime = ValueError
                      THEN Raised("ValueError", dcm)
                      ELSE IF ~anon THEN parsed
                      ELSE Deidentify(dcm, parsed, study_datetime)

\* ------------------------------------------------------------------------
\* DicomNetReaper
\* ------------------------------------------------------------------------
\* the series the reap is about
SeriesUID == <<"1", ".", "2">>

\* the value reap returns: the outcome and the archive mapping.  "bare"
\* marks a return value that is no pair, "fault" an exception that leaves
\* reap, "pending" that reap has not been called
Ret(outcome, metadata_map) ==
    [outcome |-> outcome, map |-> metadata_map, bare |-> FALSE, exception |-> ""]

Pending == Ret("pending", {})

Fault(exception) ==
    [outcome |-> "fault", map |-> {}, bare |-> FALSE, exception |-> exception]

EmptyDir == [files |-> {}, dirs |-> {}, archives |-> {}]

\* __init__, lines 49-50
WhitelistOf(option) == replace_star(option)

BlacklistOf(option) == split(option, <<>>)

\* is_desired_patient_id, lines 92-99: the verdict and what it logs
PatientIdVerdict(_id) ==
    IF ~re_match(whitelist, _id) THEN "ignoring_non_matching_patient_id"
    ELSE IF lower(strip(_id, {"/"})) \in blacklist THEN "discarding"
    ELSE "desired"

is_desired_patient_id(_id) == PatientIdVerdict(_id) = "desired"

\* a mutant of DeclaredIdRejected: the filter is not applied before the move
DeclaredIdRejected_Unfiltered(state) == FALSE

\* line 71: the filter on the declared patient id
DeclaredIdRejected(state) ==
    Truthy(state.patient_id) /\ ~is_desired_patient_id(state.patient_id)

\* reaper.Reaper.metadata(dcm): the Metadata Record of a parsed file
metadata(dcm) ==
    [filetype |-> S_dicom, patient_id |-> dcm.patient_id, acq_no |-> dcm.acq_no,
     session_timestamp |-> dcm.session_timestamp,
     acquisition_timestamp |-> dcm.acquisition_timestamp]

\* util.create_archive(arcdir_path, dir_name, metadata): the archive's name
ArchiveName(dir_name) == dir_name \o S_tgz

\* lines 110-111
NamePrefix(_id, acq_no) == _id \o (IF acq_no # None THEN <<"_">> \o acq_no ELSE <<>>)

DirName(_id, acq_no) == NamePrefix(_id, acq_no) \o <<"_">> \o S_dicom

\* lines 116-121: the name a file gets inside the acquisition's directory
ArchivedFileName(filename) ==
    (IF startswith(filename, S_none) THEN replace(filename, S_none, S_NA) ELSE filename)
        \o S_dcm

Min(S) == CHOOSE x \in S : \A y \in S : x <= y

Max(S) == CHOOSE x \in S : \A y \in S : x >= y

\* the files of a directory listing, as a set
FilesOf(filepaths) == {filepaths[i] : i \in DOMAIN filepaths}

\* [DicomFile(filepath, parse, anonymize) for filepath in filepaths]
DicomFiles(filepaths, parse, anon) ==
    [i \in DOMAIN filepaths |-> DicomFile(filepaths[i].dcm, parse, anon)]

\* lines 104-106: dcm_dict[acq_no], the files of one acquisition, in
\* listing order; quick[i] is DicomFile(filepaths[i])
AcqIndexes(quick, acq_no) == {i \in DOMAIN quick : quick[i].acq_no = acq_no}

AcqKeys(quick) == {quick[i].acq_no : i \in DOMAIN quick}

\* the orders in which a dictionary with these keys may be iterated
Orders(keys) ==
    {o \in [1..Cardinality(keys) -> keys] : \A k \in keys : \E i \in DOMAIN o : o[i] = k}

\* lines 115-121 stop at a file when DicomFile raises, or when the file has
\* no acquisition timestamp to format (line 119)
PlacementFails(obj) == obj.fault # "" \/ obj.acquisition_timestamp = None

\* lines 101-131: split_into_acquisitions on the files of the workspace,
\* the acquisitions taken in the order given.  quick[i] is the object of
\* line 105, full[i] that of line 115.  The acquisitions before the first
\* file that fails are archived; that file's acquisition is left as a
\* directory holding the files placed before it.
split_into_acquisitions(_id, filepaths, quick, full, order) ==
    LET idx(p)  == AcqIndexes(quick, order[p])
        bad     == {p \in DOMAIN order : \E i \in idx(p) : PlacementFails(full[i])}
        stop    == IF bad = {} THEN Len(order) + 1 ELSE Min(bad)
        placed(i) == [name |-> ArchivedFileName(filepaths[i].name), dcm |-> full[i].saved]
        arcname(p) == ArchiveName(DirName(_id, order[p]))
        names   == {arcname(p) : p \in 1..(stop - 1)}
        last(n) == Max({p \in 1..(stop - 1) : arcname(p) = n})
        arc(n)  == [name |-> n,
                    files |-> {placed(i) : i \in idx(last(n))},
                    metadata |-> metadata(full[Max(idx(last(n)))]),
                    prefix |-> NamePrefix(_id, order[last(n)])]
        at      == Min({i \in idx(stop) : PlacementFails(full[i])})
    IN  IF bad = {}
        THEN [fault |-> "",
              ws |-> [files |-> {}, dirs |-> {}, archives |-> {arc(n) : n \in names}],
              acq_map |-> {arc(n) : n \in names}]
        ELSE [fault |-> IF full[at].fault # "" THEN full[at].fault ELSE "AttributeError",
              ws |-> [files |-> {filepaths[i] : i \in {j \in DOMAIN filepaths :
                                      \/ \E p \in (stop + 1)..Len(order) : j \in idx(p)
                                      \/ j \in idx(stop) /\ j > at}}
                                \cup {IF full[at].fault # "" THEN filepaths[at]
                                      ELSE [name |-> filepaths[at].name, dcm |-> full[at].saved]},
                      dirs |-> {[name |-> DirName(_id, order[stop]),
                                 files |-> {placed(i) : i \in {j \in idx(stop) : j < at}}]},
                      archives |-> {arc(n) : n \in names}],
              acq_map |-> {arc(n) : n \in names}]

\* a mutant of NoOutcome: a discarded series is reported as a failure
NoOutcome_AsFailure == Ret("False", {})

\* lines 70, 72 and 81: the value returned for a series that is discarded
NoOutcome == Ret("None", {})

\* what reap leaves behind: the value returned, the workspace, the log and
\* the pair (success, reap_cnt) the move operation returned, if invoked
Outcome(value, ws, lg, mv) == [ret |-> value, tempdir |-> ws, log |-> lg, moved |-> mv]

\* lines 83-88: the acquisitions are split and archived, and the mapping of
\* archive name to Metadata Record is returned
Archive(_id, filepaths, quick, full, order, lg) ==
    IF \E i \in DOMAIN quick : quick[i].fault # ""
    THEN Outcome(Fault(quick[Min({i \in DOMAIN quick : quick[i].fault # ""})].fault),
                 [EmptyDir EXCEPT !.files = FilesOf(filepaths)], lg \cup {"inspecting"},
                 <<TRUE, Len(filepaths)>>)
    ELSE LET r == split_into_acquisitions(_id, filepaths, quick, full, order)
         IN  Outcome(IF r.fault # "" THEN Fault(r.fault)
                     ELSE Ret("True", {[name |-> e.name, metadata |-> e.metadata]
                                          : e \in r.acq_map}),
                     r.ws, lg \cup {"inspecting", "compressing"}, <<TRUE, Len(filepaths)>>)

\* lines 75-90: the series is retrieved; success and filepaths are what
\* the move operation reports and stores (reap_cnt is the number of files)
Retrieve(_id, state, success, filepaths, quick, full, order) ==
    LET ws == [EmptyDir EXCEPT !.files = FilesOf(filepaths)]
        lg == {"reaping", "reaped"}
        mv == <<success, Len(filepaths)>>
        checked == success /\ Len(filepaths) > 0
    IN  IF checked /\ quick[1].fault # ""
        THEN Outcome(Fault(quick[1].fault), ws, lg, mv)
        ELSE IF checked /\ ~is_desired_patient_id(quick[1].patient_id)
        THEN Outcome(NoOutcome, ws, lg \cup {PatientIdVerdict(quick[1].patient_id)}, mv)
        ELSE IF success /\ Len(filepaths) = state.images
        THEN Archive(_id, filepaths, quick, full, order, lg)
        ELSE Outcome(Ret("False", {}), ws, lg, mv)

\* scu.move(SeriesQuery(SeriesInstanceUID=_id), tempdir): whether the
\* operation succeeded, and the files it stored in the workspace, the first
\* reap_cnt of the series
Transferred(reap_cnt) == SubSeq(device, 1, reap_cnt)

\* DicomNetReaper.reap(_id, item, tempdir), lines 67-90: the outcomes reap
\* may have, over what the move operation does and the order in which the
\* dictionary of acquisitions is iterated
reap(_id, state) ==
    IF state.images = 0
    THEN {Outcome(NoOutcome, EmptyDir, {"ignoring_zero_images"}, None)}
    ELSE IF DeclaredIdRejected(state)
    THEN {Outcome(NoOutcome, EmptyDir, {PatientIdVerdict(state.patient_id)}, None)}
    ELSE UNION { LET filepaths == Transferred(reap_cnt)
                     quick == DicomFiles(filepaths, FALSE, FALSE)
                     full  == DicomFiles(filepaths, TRUE, anonymize)
                 IN  { Retrieve(_id, state, success, filepaths, quick, full, order)
                         : success \in BOOLEAN, order \in Orders(AcqKeys(quick)) }
               : reap_cnt \in 0..Len(device) }

NetReap ==
    /\ ret = Pending
    /\ \E r \in reap(SeriesUID, item) :
          /\ ret' = r.ret
          /\ tempdir' = r.tempdir
          /\ log' = r.log
          /\ moved' = r.moved
    /\ UNCHANGED <<anonymize, whitelist, blacklist, item, device>>
    /\ UNCHANGED <<query_vars, walk_vars, file_vars, dcm_vars>>

\* ------------------------------------------------------------------------
\* DicomNetReaper.instrument_query
\* ------------------------------------------------------------------------
\* the value instrument_query returns: a dictionary of items, or None
Snapshot(items) == [value |-> "dict", items |-> items]

NoSnapshot == [value |-> "None", items |-> {}]

NotQueried == [value |-> "pending", items |-> {}]

\* scu.find(SeriesQuery(**query_params)): the records of the series that
\* match, and no record when the device cannot be reached
find(ok) == IF ok THEN pacs ELSE {}

\* int(r['NumberOfSeriesRelatedInstances'])
int(s) == NatOf(s)

\* lines 57-65: one item per record, and None for an empty dictionary
instrument_query(scu_resp) ==
    LET items == {[id |-> r.SeriesInstanceUID,
                   state |-> [images |-> int(r.NumberOfSeriesRelatedInstances),
                              patient_id |-> r.PatientID]] : r \in scu_resp}
    IN  IF items # {} THEN Snapshot(items) ELSE NoSnapshot

NetQuery ==
    /\ \E ok \in BOOLEAN :
          /\ find_ok' = ok
          /\ i_state' = instrument_query(find(ok))
    /\ UNCHANGED pacs
    /\ UNCHANGED <<net_vars, walk_vars, file_vars, dcm_vars>>

\* ------------------------------------------------------------------------
\* DicomFileReaper.instrument_query
\* ------------------------------------------------------------------------
\* A directory is the sequence of the names from self.path down to it,
\* self.path itself the empty sequence; tree holds every directory with the
\* number of its files.
S_data == <<"d", "a", "t", "a">>

\* os.path.basename(dirpath); self.path is a directory named data
basename(dirpath) == IF dirpath = <<>> THEN S_data ELSE dirpath[Len(dirpath)]

\* the dirnames os.walk reports for dirpath
dirnames(dirpath) ==
    {d.path : d \in {e \in tree : Len(e.path) = Len(dirpath) + 1
                                  /\ SubSeq(e.path, 1, Len(dirpath)) = dirpath}}

\* lines 48-52: whether the directory os.walk reports becomes an item
IsItem(dir) ==
    /\ ~startswith(basename(dir.path), <<".">>)
    /\ dir.path # <<>>
    /\ dirnames(dir.path) = {} /\ dir.file_cnt > 0

\* lines 46-63: os.walk visits every directory of the tree
file_instrument_query ==
    Snapshot({[id |-> d.path, state |-> [file_cnt |-> d.file_cnt]]
                : d \in {e \in tree : IsItem(e)}})

FileQuery ==
    /\ fs_state = NotQueried
    /\ fs_state' = file_instrument_query
    /\ UNCHANGED tree
    /\ UNCHANGED <<net_vars, query_vars, file_vars, dcm_vars>>

\* ------------------------------------------------------------------------
\* DicomFileReaper.reap
\* ------------------------------------------------------------------------
\* A directory entry is a file name with what the file holds: "dicom" (a
\* file dicom.read_file accepts), "corrupt" (one it rejects), a JSON
\* document ("json_a", "json_b") or text json.load rejects ("not_json").
SidecarNames == {"metadata.json", "METADATA.json"}

\* line 74
IsSidecar(fn) == fn = "metadata.json" \/ fn = "METADATA.json"

\* lines 77-83: whether dicom.read_file(fp) returns, so that fp is copied
IsReaped(entry) == entry.content = "dicom"

\* line 88: whether json.load accepts the file
JsonLoads(content) == content \in {"json_a", "json_b"}

\* line 94: reap returns the bare value True
FileRet == [outcome |-> "True", map |-> {}, bare |-> TRUE, exception |-> ""]

\* lines 65-94 on the directory dir, the sidecar file last moved as given
\* (None when the directory holds none)
file_reap_with(dir, sidecar) ==
    LET copied == {e \in dir : ~IsSidecar(e.name) /\ IsReaped(e)}
        left   == {e \in dir : ~IsSidecar(e.name)}
    IN  IF sidecar # None /\ ~JsonLoads(sidecar[1].content)
        THEN [ret |-> Fault("ValueError"),
              tempdir |-> [files |-> {[name |-> "METADATA.json", content |-> sidecar[1].content]},
                           dirs |-> {[name |-> "reap", files |-> copied]},
                           archives |-> {}],
              src |-> left]
        ELSE [ret |-> FileRet,
              tempdir |-> [files |-> {}, dirs |-> {},
                           archives |-> {[name |-> "reap.zip", files |-> copied,
                                          metadata |-> [filetype |-> "dicom",
                                                        seed |-> IF sidecar = None THEN "none"
                                                                 ELSE sidecar[1].content]]}],
              src |-> left]

\* DicomFileReaper.reap(_id, item, tempdir): the outcomes it may have, over
\* the order in which os.listdir lists the directory
file_reap(dir) ==
    LET sidecars == {e \in dir : IsSidecar(e.name)}
    IN  IF sidecars = {} THEN {file_reap_with(dir, None)}
        ELSE {file_reap_with(dir, <<e, "last">>) : e \in sidecars}

\* the engine offers the item again, with a fresh workspace, as long as no
\* attempt has succeeded
FileReap ==
    /\ attempts < MaxAttempts
    /\ fs_ret.outcome # "True"
    /\ \E r \in file_reap(src_dir) :
          /\ fs_ret' = r.ret
          /\ fs_tempdir' = r.tempdir
          /\ src_dir' = r.src
    /\ attempts' = attempts + 1
    /\ UNCHANGED src_dir0
    /\ UNCHANGED <<net_vars, query_vars, walk_vars, dcm_vars>>

\* ------------------------------------------------------------------------
\* DicomFile.__init__ on one file, parsed and de-identified
\* ------------------------------------------------------------------------
Construct ==
    /\ dcm_obj.fault = "pending"
    /\ dcm_obj' = DicomFile(dcm_read, TRUE, TRUE)
    /\ dcm_file' = dcm_obj'.saved
    /\ UNCHANGED dcm_read
    /\ UNCHANGED <<net_vars, query_vars, walk_vars, file_vars>>

\* ------------------------------------------------------------------------
\* The inputs of the network backend
\* ------------------------------------------------------------------------
\* the -w and -b options (the defaults are '*' and 'discard')
WhitelistOptions == {S_star, S_e_star}

BlacklistOption == S_discard_ex

\* patient ids: empty, accepted by both whitelists, blacklisted, and
\* blacklisted only after strip('/') and lower()
PatientIds == {<<>>, S_ea, S_ex, S_Discard_slash}

\* the headers a retrieved file may carry; pid is the series' patient
StudyHeader(manufacturer, acq, pid) ==
    Header(manufacturer, acq, S_20200101, S_120000, None, None, S_19900101, S_Doe_Jane, pid)

FullHeader(manufacturer, acq, pid) ==
    Header(manufacturer, acq, S_20200101, S_120000, S_20200101, S_120000_5,
           S_19900101, S_Doe_Jane, pid)

UndatedHeader(manufacturer, acq, pid) ==
    Header(manufacturer, acq, None, None, None, None, S_19900101, S_Doe_Jane, pid)

SeriesHeaders(pid) ==
    { FullHeader(S_GE, S_1, pid), FullHeader(S_GE, S_2, pid), StudyHeader(S_GE, None, pid),
      FullHeader(S_SIEMENS, S_1, pid), FullHeader(S_Siemens, S_2, pid),
      UndatedHeader(S_GE, S_1, pid), FullHeader(None, S_1, pid) }

\* the name the move operation gives the i-th file of the series
FileName(i) ==
    (CASE i = 1 -> S_none [] i = 2 -> S_MR [] OTHER -> S_NA) \o <<".">> \o StrOfNat(i)

SeriesOnDevice ==
    UNION { { [i \in 1..n |-> [name |-> FileName(i), dcm |-> hs[i]]]
              : hs \in [1..n -> SeriesHeaders(pid)] }
            : n \in 0..MaxImages, pid \in PatientIds }

NetIdle ==
    /\ anonymize = FALSE
    /\ whitelist = <<>>
    /\ blacklist = {}
    /\ item = [images |-> 0, patient_id |-> <<>>]
    /\ device = <<>>
    /\ tempdir = EmptyDir
    /\ log = {}
    /\ moved = None
    /\ ret = Pending

QueryIdle ==
    /\ pacs = {}
    /\ find_ok = TRUE
    /\ i_state = NotQueried

WalkIdle ==
    /\ tree = {}
    /\ fs_state = NotQueried

FileIdle ==
    /\ src_dir0 = {}
    /\ src_dir = {}
    /\ attempts = 0
    /\ fs_tempdir = EmptyDir
    /\ fs_ret = Pending

DcmIdle ==
    /\ dcm_read = None
    /\ dcm_file = None
    /\ dcm_obj = Raised("pending", None)

NetInit ==
    /\ anonymize \in BOOLEAN
    /\ whitelist \in {WhitelistOf(w) : w \in WhitelistOptions}
    /\ blacklist = BlacklistOf(BlacklistOption)
    /\ item \in [images : 0..MaxImages, patient_id : PatientIds]
    /\ device \in SeriesOnDevice
    /\ tempdir = EmptyDir
    /\ log = {}
    /\ moved = None
    /\ ret = Pending
    /\ QueryIdle /\ WalkIdle /\ FileIdle /\ DcmIdle

NetNext == NetReap

SpecNet == NetInit /\ [][NetNext]_vars

\* ------------------------------------------------------------------------
\* Claims about DicomNetReaper.reap
\* ------------------------------------------------------------------------
Returned == ret.outcome # "pending"

\* the files the move operation stored in the workspace
Retrieved == IF moved = None THEN <<>> ELSE Transferred(moved[2])

\* C1 (as stated): a series whose transferred image count differs from its
\* declared count (declared > 0) makes reap report failure with an empty
\* mapping and no archive, whatever the patient id of the retrieved files.
C1_PartialRetrievalIsFailure ==
    (Returned /\ moved # None /\ item.images > 0 /\ moved[2] # item.images)
        => (ret.outcome = "False" /\ ret.map = {} /\ tempdir.archives = {})

DiscardLogs == {"ignoring_zero_images", "ignoring_non_matching_patient_id", "discarding"}

Discarded == log \cap DiscardLogs # {}

\* C4: whenever a series is discarded (declared image count zero, declared
\* patient id rejected by the filters, or patient id of the first retrieved
\* file rejected by the filters), reap returns no outcome with an empty
\* mapping, and the workspace holds no archive and no acquisition directory.
C4_DiscardIsNoOutcome ==
    Returned =>
      /\ Discarded =>
            /\ ret.outcome = "None" /\ ~ret.bare /\ ret.map = {}
            /\ tempdir.archives = {} /\ tempdir.dirs = {}
      /\ item.images = 0 => Discarded
      /\ (item.patient_id # <<>> /\ ~is_desired_patient_id(item.patient_id)) => Discarded
      /\ ( /\ moved # None /\ moved[1] /\ moved[2] > 0
           /\ Retrieved[1].dcm.Manufacturer # None
           /\ ~is_desired_patient_id(Get(Retrieved[1].dcm.PatientID, <<>>)) ) => Discarded

C4_Witness ==
    /\ Returned /\ moved # None /\ "discarding" \in log
    /\ is_desired_patient_id(item.patient_id)
    /\ ret.outcome = "None" /\ tempdir.archives = {}

\* C5 (as stated): reap completes by returning a pair of an outcome in
\* {success, failure, none} and a mapping, never a bare value and never an
\* uncaught fault, also for a file with no manufacturer or no date and time.
C5_ReapReturnsAPair ==
    /\ Returned => (ret.outcome \in {"True", "False", "None"} /\ ~ret.bare)
    /\ fs_ret.outcome # "pending" => (fs_ret.outcome \in {"True", "False", "None"} /\ ~fs_ret.bare)

\* the equipment whose acquisition numbers are not used
IsExceptedVendor(dcm) == dcm.Manufacturer \in {S_SIEMENS, S_Siemens}

\* the archive(s) of the workspace that hold the retrieved file f
ArchivesHolding(f) ==
    {a \in tempdir.archives : \E g \in a.files : g.name = ArchivedFileName(f.name)}

\* C10: when reap reports success, the retrieved files are partitioned into
\* groups, one per distinct acquisition number, the files of the excepted
\* vendor in a single group; every retrieved file is in exactly one archive,
\* the mapping has exactly one entry per group, and no working directory is
\* left in the workspace.
C10_AcquisitionSplit ==
    ret.outcome = "True" =>
      LET files == FilesOf(Retrieved)
      IN  /\ \A f \in files : Cardinality(ArchivesHolding(f)) = 1
          /\ \A a \in tempdir.archives :
                \A g \in a.files : \E f \in files : g.name = ArchivedFileName(f.name)
          /\ \A f, g \in files :
                (ArchivesHolding(f) = ArchivesHolding(g)) <=>
                    \/ IsExceptedVendor(f.dcm) /\ IsExceptedVendor(g.dcm)
                    \/ /\ ~IsExceptedVendor(f.dcm) /\ ~IsExceptedVendor(g.dcm)
                       /\ f.dcm.AcquisitionNumber = g.dcm.AcquisitionNumber
                    \/ /\ IsExceptedVendor(f.dcm) # IsExceptedVendor(g.dcm)
                       /\ \A h \in {f, g} : IsExceptedVendor(h.dcm) \/ h.dcm.AcquisitionNumber = None
          /\ {e.name : e \in ret.map} = {a.name : a \in tempdir.archives}
          /\ Cardinality(ret.map) = Cardinality(tempdir.archives)
          /\ \A e \in ret.map : \E a \in tempdir.archives :
                a.name = e.name /\ a.metadata = e.metadata
          /\ tempdir.dirs = {} /\ tempdir.files = {}

C10_Witness ==
    /\ ret.outcome = "True" /\ Cardinality(ret.map) = 1
    /\ \E f, g \in FilesOf(Retrieved) :
          /\ f # g /\ IsExceptedVendor(f.dcm) /\ IsExceptedVendor(g.dcm)
          /\ f.dcm.AcquisitionNumber # g.dcm.AcquisitionNumber
          /\ ArchivesHolding(f) = ArchivesHolding(g)

\* ------------------------------------------------------------------------
\* The inputs of the other operations, and their specifications
\* ------------------------------------------------------------------------
S_1_2 == <<"1", ".", "2">>
S_1_3 == <<"1", ".", "3">>
S_1_4 == <<"1", ".", "4">>
S_0   == <<"0">>
S_12  == <<"1", "2">>

\* what the device may hold: no, one or several series, each with its
\* declared image count and patient id
SeriesRecords(uid) ==
    {[SeriesInstanceUID |-> uid, NumberOfSeriesRelatedInstances |-> n, PatientID |-> pid]
        : n \in {S_0, S_2, S_12}, pid \in {<<>>, S_ex}}

Devices ==
    {a \cup b \cup c : a \in {{}} \cup {{r} : r \in SeriesRecords(S_1_2)},
                       b \in {{}} \cup {{r} : r \in SeriesRecords(S_1_3)},
                       c \in {{}} \cup {{r} : r \in SeriesRecords(S_1_4)}}

QueryInit ==
    /\ pacs \in Devices
    /\ find_ok = TRUE
    /\ i_state = NotQueried
    /\ NetIdle /\ WalkIdle /\ FileIdle /\ DcmIdle

QueryNext == NetQuery

SpecQuery == QueryInit /\ [][QueryNext]_vars

\* the trees below self.path: directories named a and .h, two levels deep,
\* and one directory below a dot directory below a dot directory
S_a == <<"a">>
S_dot_h == <<".", "h">>

DirNames == {S_a, S_dot_h}

DirPaths ==
    {<<x>> : x \in DirNames} \cup {<<x, y>> : x \in DirNames, y \in DirNames}
        \cup {<<S_dot_h, S_dot_h, S_a>>}

PrefixClosed(paths) ==
    \A q \in paths : Len(q) > 1 => SubSeq(q, 1, Len(q) - 1) \in paths

Trees ==
    UNION { { {[path |-> q, file_cnt |-> IF q \in with_files THEN 2 ELSE 0]
                 : q \in paths \cup {<<>>}}
              : with_files \in SUBSET (paths \cup {<<>>}) }
            : paths \in {ps \in SUBSET DirPaths : PrefixClosed(ps)} }

WalkInit ==
    /\ tree \in Trees
    /\ fs_state = NotQueried
    /\ NetIdle /\ QueryIdle /\ FileIdle /\ DcmIdle

WalkNext == FileQuery

SpecWalk == WalkInit /\ [][WalkNext]_vars

\* the item directories: up to MaxDirFiles files of distinct names
DataNames == {"1.dcm", "2.dcm", "3.dcm", "4.dcm"}

DirEntries ==
    {[name |-> n, content |-> c] : n \in SidecarNames, c \in {"json_a", "not_json"}}
        \cup {[name |-> "Metadata.json", content |-> "json_b"]}
        \cup {[name |-> n, content |-> c] : n \in DataNames, c \in {"dicom", "corrupt"}}

ItemDirs ==
    {d \in SUBSET DirEntries :
        /\ Cardinality(d) \in 1..MaxDirFiles
        /\ \A e, f \in d : e.name = f.name => e = f}

FileInit ==
    /\ src_dir0 \in ItemDirs
    /\ src_dir = src_dir0
    /\ attempts = 0
    /\ fs_tempdir = EmptyDir
    /\ fs_ret = Pending
    /\ NetIdle /\ QueryIdle /\ WalkIdle /\ DcmIdle

FileNext == FileReap

SpecFile == FileInit /\ [][FileNext]_vars

\* the headers de-identified: birth dates on, before and after the day of
\* the session, of a patient of 80 years, before 1900, no date at all, and
\* text that is no date
BirthDates ==
    {None, <<>>, S_19900101, S_19900115, S_19400101, S_19400102, S_18991231,
     S_19900230, S_1990010X}

StudyDates == {None, S_20200101, S_20200114, S_20191231}

DeidHeaders ==
    {Header(S_GE, S_1, sd, st, None, None, dob, name, S_ex)
        : sd \in StudyDates, st \in {None, S_120000_5},
          dob \in BirthDates, name \in {None, <<>>, S_Doe_Jane}}

DcmInit ==
    /\ dcm_read \in DeidHeaders
    /\ dcm_file = dcm_read
    /\ dcm_obj = Raised("pending", None)
    /\ NetIdle /\ QueryIdle /\ WalkIdle /\ FileIdle

DcmNext == Construct

SpecDcm == DcmInit /\ [][DcmNext]_vars

\* ------------------------------------------------------------------------
\* Claims about the queries, the filesystem reap and the de-identification
\* ------------------------------------------------------------------------
Queried == i_state.value # "pending"

\* C2 (as stated): a find that succeeds and matches no series returns an
\* empty but valid snapshot, which the engine can tell apart from the value
\* of a communication failure; only a communication failure yields the
\* failure value None.
C2_EmptyFindIsNotFailure ==
    Queried =>
      /\ find_ok => (i_state.value = "dict" /\ {it.id : it \in i_state.items}
                                                  = {r.SeriesInstanceUID : r \in pacs})
      /\ ~find_ok => i_state.value = "None"

\* the files of the item directory that pass the format validation
ValidFiles == {e \in src_dir0 : ~IsSidecar(e.name) /\ IsReaped(e)}

\* C6 (as stated): the archive holds exactly the files of the directory
\* that pass the format validation, no sidecar metadata file and no file
\* that fails it, and reap reports success however many files fail.
C6_ArchiveHoldsExactlyValidFiles ==
    attempts >= 1 =>
      /\ fs_ret.outcome = "True"
      /\ \E a \in fs_tempdir.archives :
            /\ fs_tempdir.archives = {a}
            /\ a.files = ValidFiles

\* C7 (as stated): a leaf directory with a dot-prefixed directory anywhere
\* among its ancestors below the root, or dot-prefixed itself, is never an
\* id of the snapshot.
C7_NoItemBelowDotDirectory ==
    fs_state.value # "pending" =>
      \A it \in fs_state.items :
         \A i \in 1..Len(it.id) : ~startswith(it.id[i], <<".">>)

\* C9 (as stated): a reap attempt that does not end in success leaves the
\* source directory as it was, and the reap that follows it finds the
\* sidecar metadata a first attempt would find.
C9_FailedAttemptLeavesSource ==
    /\ (attempts >= 1 /\ fs_ret.outcome # "True") => src_dir = src_dir0
    /\ (fs_ret.outcome = "True" /\ \E e \in src_dir0 : IsSidecar(e.name))
          => \A a \in fs_tempdir.archives : a.metadata.seed # "none"

Constructed == dcm_obj.fault # "pending"

\* the day of the session timestamp of the object
SessionDate ==
    IF dcm_obj.session_timestamp = None THEN None
    ELSE SubSeq(dcm_obj.session_timestamp, 1, 3)

\* birth date "19900101" and session date "20200101"
C8_Case ==
    /\ Constructed
    /\ dcm_read.PatientBirthDate = S_19900101
    /\ SessionDate = <<2020, 1, 1>>

S_030Y == <<"0", "3", "0", "Y">>
S_360M == <<"3", "6", "0", "M">>

====
